---- MODULE Spec2Model ----
(***************************************************************************)
(* Model of src/api/utils/message-intel.util.ts: the payload flattener     *)
(* (collectFieldArrays), the message type detector (analyzeMessagePayload) *)
(* and the media metadata inferer (inferMediaMetadata).                    *)
(*                                                                         *)
(* A JavaScript string is a sequence of one-character TLA+ strings.  A     *)
(* long run of the character "0" is written as one token of PadLen, so     *)
(* that strings of several million characters stay small; "0" occurs in no *)
(* text the program searches for, so a substring test on tokens is the     *)
(* substring test on characters.                                           *)
(***************************************************************************)
EXTENDS Integers, Sequences, FiniteSets, TLC

VARIABLES payload, stack, fieldNames, values, type, pc,
          body, urlOK, base64OK, lookupResult, extensionResult,
          selected, metadata, outcome

vars == <<payload, stack, fieldNames, values, type, pc,
          body, urlOK, base64OK, lookupResult, extensionResult,
          selected, metadata, outcome>>

analysisVars == <<payload, stack, fieldNames, values, type>>
mediaVars ==
  <<body, urlOK, base64OK, lookupResult, extensionResult, selected, metadata, outcome>>

----------------------------------------------------------------------------
(* Strings *)

\* Runs of "0": token |-> number of characters.
PadLen ==
  [t \in {"0*150", "0*200", "0*1000000", "0*4000000", "0*5000000"} |->
     CASE t = "0*150" -> 150
       [] t = "0*200" -> 200
       [] t = "0*1000000" -> 1000000
       [] t = "0*4000000" -> 4000000
       [] t = "0*5000000" -> 5000000]

TokenLength(t) == IF t \in DOMAIN PadLen THEN PadLen[t] ELSE 1

\* String.prototype.length
RECURSIVE JsLength(_)
JsLength(s) == IF s = <<>> THEN 0 ELSE TokenLength(Head(s)) + JsLength(Tail(s))

UpperToLower ==
  [c \in {"A","B","C","D","E","F","G","H","I","J","K","L","M",
          "N","O","P","Q","R","S","T","U","V","W","X","Y","Z"} |->
     CASE c = "A" -> "a" [] c = "B" -> "b" [] c = "C" -> "c" [] c = "D" -> "d"
       [] c = "E" -> "e" [] c = "F" -> "f" [] c = "G" -> "g" [] c = "H" -> "h"
       [] c = "I" -> "i" [] c = "J" -> "j" [] c = "K" -> "k" [] c = "L" -> "l"
       [] c = "M" -> "m" [] c = "N" -> "n" [] c = "O" -> "o" [] c = "P" -> "p"
       [] c = "Q" -> "q" [] c = "R" -> "r" [] c = "S" -> "s" [] c = "T" -> "t"
       [] c = "U" -> "u" [] c = "V" -> "v" [] c = "W" -> "w" [] c = "X" -> "x"
       [] c = "Y" -> "y" [] c = "Z" -> "z"]

\* String.prototype.toLowerCase
ToLowerCase(s) ==
  [i \in 1..Len(s) |-> IF s[i] \in DOMAIN UpperToLower THEN UpperToLower[s[i]] ELSE s[i]]

\* String.prototype.includes
Includes(s, needle) ==
  \E i \in 0..(Len(s) - Len(needle)) : SubSeq(s, i + 1, i + Len(needle)) = needle

\* String.prototype.startsWith
StartsWith(s, p) == Len(s) >= Len(p) /\ SubSeq(s, 1, Len(p)) = p

\* s.split('.').pop(): the text after the last "." (all of s when it has none).
RECURSIVE SplitDotPop(_)
SplitDotPop(s) ==
  IF s = <<>> THEN <<>>
  ELSE IF s[Len(s)] = "." THEN <<>>
  ELSE SplitDotPop(SubSeq(s, 1, Len(s) - 1)) \o <<s[Len(s)]>>

Digit(n) ==
  CASE n = 0 -> "0" [] n = 1 -> "1" [] n = 2 -> "2" [] n = 3 -> "3" [] n = 4 -> "4"
    [] n = 5 -> "5" [] n = 6 -> "6" [] n = 7 -> "7" [] n = 8 -> "8" [] n = 9 -> "9"

\* `${index}`: the decimal text of an array index.
RECURSIVE IndexText(_)
IndexText(n) == IF n < 10 THEN <<Digit(n)>> ELSE IndexText(n \div 10) \o <<Digit(n % 10)>>

----------------------------------------------------------------------------
(* Payload values: the tagged union null / number / string / array / object. *)
(* kids holds Object.entries of a container: <<key, value>> pairs in          *)
(* enumeration order, the keys of an array being its indices.                 *)

Null == [t |-> "null", s |-> <<>>, kids |-> <<>>]
Num == [t |-> "number", s |-> <<"1">>, kids |-> <<>>]
Str(chars) == [t |-> "string", s |-> chars, kids |-> <<>>]
Obj(entries) == [t |-> "object", s |-> <<>>, kids |-> entries]
Arr(items) ==
  [t |-> "array", s |-> <<>>,
   kids |-> [i \in 1..Len(items) |-> <<IndexText(i - 1), items[i]>>]]

\* value && typeof value === 'object'
IsObjectLike(v) == v.t \in {"object", "array"}
\* Array.isArray(value)
IsArray(v) == v.t = "array"
\* typeof value === 'string'
IsString(v) == v.t = "string"

----------------------------------------------------------------------------
(* The literals of the type detector, as character sequences. *)

L_sticker == <<"s","t","i","c","k","e","r">>
L_reaction == <<"r","e","a","c","t","i","o","n">>
L_template == <<"t","e","m","p","l","a","t","e">>
L_components == <<"c","o","m","p","o","n","e","n","t","s">>
L_language == <<"l","a","n","g","u","a","g","e">>
L_buttons == <<"b","u","t","t","o","n","s">>
L_button == <<"b","u","t","t","o","n">>
L_sections == <<"s","e","c","t","i","o","n","s">>
L_section == <<"s","e","c","t","i","o","n">>
L_buttontext == <<"b","u","t","t","o","n","t","e","x","t">>
L_latitude == <<"l","a","t","i","t","u","d","e">>
L_longitude == <<"l","o","n","g","i","t","u","d","e">>
L_contact == <<"c","o","n","t","a","c","t">>
L_wuid == <<"w","u","i","d">>
L_selectablecount == <<"s","e","l","e","c","t","a","b","l","e","c","o","u","n","t">>
L_statusjidlist == <<"s","t","a","t","u","s","j","i","d","l","i","s","t">>
L_allcontacts == <<"a","l","l","c","o","n","t","a","c","t","s">>
L_status == <<"s","t","a","t","u","s">>
L_video == <<"v","i","d","e","o">>
L_audio == <<"a","u","d","i","o">>
L_media == <<"m","e","d","i","a">>
L_mediatype == <<"m","e","d","i","a","t","y","p","e">>
L_mimetype == <<"m","i","m","e","t","y","p","e">>
L_text == <<"t","e","x","t">>

----------------------------------------------------------------------------
(* Type detection *)

Undefined == "undefined"

normaliseField(field) == ToLowerCase(field)

\* fields.some((f) => normaliseField(f).includes(word))
SomeFieldIncludes(fields, word) ==
  \E i \in 1..Len(fields) : Includes(normaliseField(fields[i]), word)

\* Another reading of the exact-name test: the last segment of the path.
SomeFieldEndsWith(fields, names) ==
  \E i \in 1..Len(fields) : SplitDotPop(normaliseField(fields[i])) \in names

\* fields.some((f) => names.includes(normaliseField(f)))
SomeFieldIs(fields, names) ==
  \E i \in 1..Len(fields) : normaliseField(fields[i]) \in names

\* A slip of the location rule: either path alone is enough.
LocationMatchEither(fields) ==
  \/ SomeFieldIncludes(fields, L_latitude)
  \/ SomeFieldIncludes(fields, L_longitude)

\* The match predicate of the location detector.
LocationMatch(fields) ==
  /\ SomeFieldIncludes(fields, L_latitude)
  /\ SomeFieldIncludes(fields, L_longitude)

\* The match predicate of each entry of messageTypeDetectors.
DetectorMatch(kind, fields) ==
  CASE kind = "sticker" -> SomeFieldIncludes(fields, L_sticker)
    [] kind = "reaction" -> SomeFieldIncludes(fields, L_reaction)
    [] kind = "template" -> SomeFieldIs(fields, {L_template, L_components, L_language})
    [] kind = "buttons" -> SomeFieldIncludes(fields, L_buttons)
    [] kind = "list" ->
         \E i \in 1..Len(fields) :
            \/ Includes(normaliseField(fields[i]), L_sections)
            \/ Includes(normaliseField(fields[i]), L_buttontext)
    [] kind = "location" -> LocationMatch(fields)
    [] kind = "contact" ->
         \/ SomeFieldIncludes(fields, L_contact)
         \/ SomeFieldIncludes(fields, L_wuid)
    [] kind = "poll" -> SomeFieldIncludes(fields, L_selectablecount)
    [] kind = "status" ->
         \/ SomeFieldIs(fields, {L_statusjidlist})
         \/ SomeFieldIs(fields, {L_allcontacts})
    [] kind = "ptv" -> SomeFieldIncludes(fields, L_video)
    [] kind = "audio" -> SomeFieldIncludes(fields, L_audio)
    [] kind = "media" -> SomeFieldIs(fields, {L_media, L_mediatype, L_mimetype})
    [] kind = "text" -> SomeFieldIs(fields, {L_text})

\* The order of the entries of messageTypeDetectors.
messageTypeDetectors ==
  <<"sticker", "reaction", "template", "buttons", "list", "location", "contact",
    "poll", "status", "ptv", "audio", "media", "text">>

\* messageTypeDetectors.find(({ match }) => match(fieldNames, values))?.type
FindDetector(fields) ==
  IF \E i \in 1..Len(messageTypeDetectors) : DetectorMatch(messageTypeDetectors[i], fields)
  THEN messageTypeDetectors[
         CHOOSE i \in 1..Len(messageTypeDetectors) :
           /\ DetectorMatch(messageTypeDetectors[i], fields)
           /\ \A j \in 1..(i - 1) : ~DetectorMatch(messageTypeDetectors[j], fields)]
  ELSE Undefined

\* stringValues.some((value) => value.toLowerCase().includes(word))
SomeStringIncludes(vals, word) ==
  \E i \in 1..Len(vals) : IsString(vals[i]) /\ Includes(ToLowerCase(vals[i].s), word)

detectByValues(vals) ==
  IF SomeStringIncludes(vals, L_sticker) THEN "sticker"
  ELSE IF SomeStringIncludes(vals, L_reaction) THEN "reaction"
  ELSE IF SomeStringIncludes(vals, L_template) THEN "template"
  ELSE IF SomeStringIncludes(vals, L_button) THEN "buttons"
  ELSE IF SomeStringIncludes(vals, L_section) THEN "list"
  ELSE IF SomeStringIncludes(vals, L_latitude) THEN "location"
  ELSE IF SomeStringIncludes(vals, L_contact) THEN "contact"
  ELSE IF SomeStringIncludes(vals, L_selectablecount) THEN "poll"
  ELSE IF SomeStringIncludes(vals, L_status) THEN "status"
  ELSE IF SomeStringIncludes(vals, L_video) THEN "ptv"
  ELSE IF SomeStringIncludes(vals, L_audio) THEN "audio"
  ELSE IF SomeStringIncludes(vals, L_media) THEN "media"
  ELSE IF SomeStringIncludes(vals, L_text) THEN "text"
  ELSE Undefined

\* A slip of the resolution: the content rules are consulted first.
ResolveTypeContentFirst(fields, vals) ==
  LET matchedByField == FindDetector(fields)
      matchedByValue == detectByValues(vals)
  IN IF matchedByValue # Undefined THEN matchedByValue
     ELSE IF matchedByField # Undefined THEN matchedByField
     ELSE "unknown"

\* analyzeMessagePayload, lines 143-149: the type of the returned analysis.
ResolveType(fields, vals) ==
  LET matchedByField == FindDetector(fields)
      matchedByValue == IF matchedByField # Undefined THEN matchedByField
                        ELSE detectByValues(vals)
  IN IF matchedByValue # Undefined THEN matchedByValue
     ELSE IF matchedByField # Undefined THEN matchedByField
     ELSE "unknown"

----------------------------------------------------------------------------
(* Inputs: the payloads the analysis is run on. *)

K_sticker == <<"s","t","i","c","k","e","r">>
K_reaction == <<"r","e","a","c","t","i","o","n">>
K_template == <<"t","e","m","p","l","a","t","e">>
K_language == <<"l","a","n","g","u","a","g","e">>
K_buttons == <<"b","u","t","t","o","n","s">>
K_sections == <<"s","e","c","t","i","o","n","s">>
K_buttonText == <<"b","u","t","t","o","n","T","e","x","t">>
K_latitude == <<"l","a","t","i","t","u","d","e">>
K_longitude == <<"l","o","n","g","i","t","u","d","e">>
K_contact == <<"c","o","n","t","a","c","t">>
K_wuid == <<"w","u","i","d">>
K_selectableCount == <<"s","e","l","e","c","t","a","b","l","e","C","o","u","n","t">>
K_statusJidList == <<"s","t","a","t","u","s","J","i","d","L","i","s","t">>
K_video == <<"v","i","d","e","o">>
K_audio == <<"a","u","d","i","o">>
K_mediatype == <<"m","e","d","i","a","t","y","p","e">>
K_text == <<"t","e","x","t">>
K_note == <<"n","o","t","e">>
K_message == <<"m","e","s","s","a","g","e">>
K_items == <<"i","t","e","m","s">>
K_a == <<"a">>
K_b == <<"b">>

V_sticker == <<"S","t","i","c","k","e","r">>
V_reaction == <<"r","e","a","c","t","i","o","n">>
V_template == <<"t","e","m","p","l","a","t","e">>
V_button == <<"t","a","p"," ","t","h","e"," ","b","u","t","t","o","n"," ","b","e","l","o","w">>
V_section == <<"s","e","c","t","i","o","n">>
V_latitude == <<"l","a","t","i","t","u","d","e">>
V_contact == <<"c","o","n","t","a","c","t">>
V_selectablecount == <<"s","e","l","e","c","t","a","b","l","e","C","o","u","n","t">>
V_status == <<"s","t","a","t","u","s">>
V_video == <<"s","e","e"," ","t","h","e"," ","v","i","d","e","o">>
V_audio == <<"a","u","d","i","o">>
V_media == <<"m","e","d","i","a">>
V_text == <<"t","e","x","t">>
V_hi == <<"h","i">>

\* Keys whose names the field-name rules look for.
DetectKeys ==
  {K_sticker, K_reaction, K_template, K_language, K_buttons, K_sections, K_buttonText, K_latitude, K_longitude, K_contact, K_wuid, K_selectableCount, K_statusJidList, K_video, K_audio, K_mediatype, K_text}

\* String values the content rules look for, and one they do not.
ContentStrings ==
  {V_sticker, V_reaction, V_template, V_button, V_section, V_latitude, V_contact, V_selectablecount, V_status, V_video, V_audio, V_media, V_text, V_hi}

\* Bounds of the inputs.
MaxEntries == 2
MaxNodes == 4

\* The entries of the flat payloads: a rule's key with a number, or a string
\* under a key, "note", that no rule looks for, and the spec's {text: "..."}.
DetectEntries ==
  {<<k, Num>> : k \in DetectKeys}
    \cup {<<K_note, Str(s)>> : s \in ContentStrings}
    \cup {<<K_text, Str(V_video)>>, <<K_text, Str(V_hi)>>}

HasKey(entries, k) == \E i \in 1..Len(entries) : entries[i][1] = k

\* Entry lists of length n with distinct keys.
RECURSIVE EntryLists(_)
EntryLists(n) ==
  IF n = 0 THEN {<<>>}
  ELSE UNION {{Append(l, e) : e \in {x \in DetectEntries : ~HasKey(l, x[1])}} :
              l \in EntryLists(n - 1)}

FlatPayloads == {Obj(l) : l \in UNION {EntryLists(n) : n \in 0..MaxEntries}}

\* One entry nested under a mapping key and inside a sequence of mappings.
NestedPayloads ==
  {Obj(<<<<K_message, Obj(<<e>>)>>>>) : e \in DetectEntries}
    \cup {Obj(<<<<K_items, Arr(<<Obj(<<e>>)>>)>>>>) : e \in DetectEntries}

\* Every payload shape of at most MaxNodes nodes over two keys and two scalars.
ShapeKeys == {K_a, K_b}
ShapeLeaves == {Null, Num}

RECURSIVE KeyLists(_)
KeyLists(n) ==
  IF n = 0 THEN {<<>>}
  ELSE UNION {{Append(l, k) : k \in {x \in ShapeKeys : \A i \in 1..Len(l) : l[i] # x}} :
              l \in KeyLists(n - 1)}

RECURSIVE Shapes(_), Forests(_)
\* Sequences of values with n nodes in all.
Forests(n) ==
  IF n = 0 THEN {<<>>}
  ELSE UNION {{<<x[1]>> \o x[2] : x \in Shapes(k) \X Forests(n - k)} : k \in 1..n}
\* Values with exactly n nodes.
Shapes(n) ==
  IF n = 1 THEN ShapeLeaves \cup {Obj(<<>>), Arr(<<>>)}
  ELSE {Arr(f) : f \in Forests(n - 1)}
         \cup UNION {{Obj([i \in 1..Len(f) |-> <<ks[i], f[i]>>]) : ks \in KeyLists(Len(f))} :
                     f \in Forests(n - 1)}

ShapePayloads == UNION {Shapes(n) : n \in 1..MaxNodes}

Payloads == FlatPayloads \cup NestedPayloads \cup ShapePayloads

----------------------------------------------------------------------------
(* collectFieldArrays, one step per visited entry or element.  A frame is a *)
(* running forEach: over Object.entries(payload) ("entries") or over the    *)
(* items of an array value ("items").                                       *)

Frame(mode, v, prefix) == [mode |-> mode, list |-> v.kids, i |-> 1, prefix |-> prefix]

\* The call collectFieldArrays(payload, prefix, accumulator): lines 115-119.
CallFrames(v, prefix) ==
  IF IsObjectLike(v) THEN <<Frame("entries", v, prefix)>> ELSE <<>>

\* prefix ? `${prefix}.${key}` : key
EntryPath(prefix, key) == IF prefix # <<>> THEN prefix \o <<".">> \o key ELSE key

\* `${path}[${index}]`
ItemPath(path, index) == path \o <<"[">> \o IndexText(index) \o <<"]">>

Top == stack[Len(stack)]
Advance == [stack EXCEPT ![Len(stack)].i = @ + 1]

\* Lines 119-134: one callback of Object.entries(payload).forEach.
CollectEntry ==
  /\ pc = "collect"
  /\ stack # <<>>
  /\ Top.mode = "entries"
  /\ Top.i <= Len(Top.list)
  /\ LET key == Top.list[Top.i][1]
         value == Top.list[Top.i][2]
         path == EntryPath(Top.prefix, key)
     IN /\ fieldNames' = Append(fieldNames, path)
        /\ values' = Append(values, value)
        /\ stack' = IF IsArray(value) THEN Append(Advance, Frame("items", value, path))
                    ELSE Advance \o CallFrames(value, path)
  /\ UNCHANGED <<payload, type, pc, mediaVars>>

\* A slip of the array branch: the path is pushed, the item is not.
CollectItemPathOnly ==
  /\ pc = "collect"
  /\ stack # <<>>
  /\ Top.mode = "items"
  /\ Top.i <= Len(Top.list)
  /\ LET item == Top.list[Top.i][2]
         path == ItemPath(Top.prefix, Top.i - 1)
     IN /\ fieldNames' = Append(fieldNames, path)
        /\ values' = values
        /\ stack' = Advance \o CallFrames(item, path)
  /\ UNCHANGED <<payload, type, pc, mediaVars>>

\* Lines 125-131: one callback of value.forEach.
CollectItem ==
  /\ pc = "collect"
  /\ stack # <<>>
  /\ Top.mode = "items"
  /\ Top.i <= Len(Top.list)
  /\ LET item == Top.list[Top.i][2]
         path == ItemPath(Top.prefix, Top.i - 1)
     IN /\ fieldNames' = Append(fieldNames, path)
        /\ values' = Append(values, item)
        /\ stack' = Advance \o CallFrames(item, path)
  /\ UNCHANGED <<payload, type, pc, mediaVars>>

\* The end of a forEach: the call (line 137) or the array branch returns.
CollectReturn ==
  /\ pc = "collect"
  /\ stack # <<>>
  /\ Top.i > Len(Top.list)
  /\ stack' = SubSeq(stack, 1, Len(stack) - 1)
  /\ UNCHANGED <<payload, fieldNames, values, type, pc, mediaVars>>

\* analyzeMessagePayload after collectFieldArrays returned: lines 143-150.
Analyze ==
  /\ pc = "collect"
  /\ stack = <<>>
  /\ type' = ResolveType(fieldNames, values)
  /\ pc' = "analyzed"
  /\ UNCHANGED <<payload, stack, fieldNames, values, mediaVars>>

----------------------------------------------------------------------------
(* inferMediaMetadata *)

M_image_slash == <<"i","m","a","g","e","/">>
M_audio_slash == <<"a","u","d","i","o","/">>
M_video_slash == <<"v","i","d","e","o","/">>
M_image == <<"i","m","a","g","e">>
M_audio_kind == <<"a","u","d","i","o">>
M_video_kind == <<"v","i","d","e","o">>
M_document == <<"d","o","c","u","m","e","n","t">>
M_audio_ogg == <<"a","u","d","i","o","/","o","g","g">>
M_dot_ogg == <<".","o","g","g">>
M_image_jpeg == <<"i","m","a","g","e","/","j","p","e","g">>
M_dot_jpg == <<".","j","p","g">>
M_jpeg == <<"j","p","e","g">>
M_video_mp4 == <<"v","i","d","e","o","/","m","p","4">>
M_audio_mpeg == <<"a","u","d","i","o","/","m","p","e","g">>
M_image_png == <<"i","m","a","g","e","/","p","n","g">>
M_file_audio_ogg == <<"a","u","d","i","o",".","o","g","g">>
M_file_image_jpg == <<"i","m","a","g","e",".","j","p","g">>
M_file_video_mp4 == <<"v","i","d","e","o",".","m","p","4">>
M_file_audio_mp3 == <<"a","u","d","i","o",".","m","p","3">>
M_file_image_png == <<"i","m","a","g","e",".","p","n","g">>
M_media_dot == <<"m","e","d","i","a",".">>

LONG_STRING_THRESHOLD == 200
VIDEO_SIZE_THRESHOLD == 4000000
AUDIO_SIZE_THRESHOLD == 1000000

\* The collaborators are opaque: what each answers is part of the input.
\* isURL(value, { require_tld: false })
isURL(s) == s \in urlOK
\* isBase64(value, { allowMime: true })
isBase64(s) == s \in base64OK
\* mimeTypes.lookup(urlCandidate): a MIME type, or <<>> for false.
mimeLookup(url) == lookupResult
\* mimeTypes.extension(type): an extension, or <<>> for false (always false for '').
mimeExtension(mime) == IF mime = <<>> THEN <<>> ELSE extensionResult

\* a || b on strings, <<>> standing for every falsy value ('', undefined, false).
Or(a, b) == IF a # <<>> THEN a ELSE b

\* analysis.values.filter((value) => typeof value === 'string')
stringValues(vals) ==
  LET strs == SelectSeq(vals, IsString) IN [i \in 1..Len(strs) |-> strs[i].s]

\* stringValues.find(...): the first element passing the test, <<>> for undefined.
FirstIn(strs, Passing) ==
  IF \E i \in 1..Len(strs) : strs[i] \in Passing
  THEN strs[CHOOSE i \in 1..Len(strs) :
              strs[i] \in Passing /\ \A j \in 1..(i - 1) : strs[j] \notin Passing]
  ELSE <<>>

Range(f) == {f[i] : i \in DOMAIN f}

\* Line 168.
urlCandidate(vals) ==
  FirstIn(stringValues(vals), {s \in Range(stringValues(vals)) : isURL(s)})

\* A slip of the length floor: >= for >.
base64CandidateFromFloor(vals) ==
  FirstIn(stringValues(vals),
          {s \in Range(stringValues(vals)) :
             JsLength(s) >= LONG_STRING_THRESHOLD /\ isBase64(s)})

\* Lines 182-184.
base64Candidate(vals) ==
  FirstIn(stringValues(vals),
          {s \in Range(stringValues(vals)) :
             JsLength(s) > LONG_STRING_THRESHOLD /\ isBase64(s)})

\* A slip of the category test: audio types fall through to document.
inferMediaTypeNoAudio(mimetype) ==
  IF mimetype = <<>> THEN <<>>
  ELSE IF StartsWith(mimetype, M_image_slash) THEN M_image
  ELSE IF StartsWith(mimetype, M_video_slash) THEN M_video_kind
  ELSE M_document

\* Lines 153-159.
inferMediaTypeFromMime(mimetype) ==
  IF mimetype = <<>> THEN <<>>
  ELSE IF StartsWith(mimetype, M_image_slash) THEN M_image
  ELSE IF StartsWith(mimetype, M_audio_slash) THEN M_audio_kind
  ELSE IF StartsWith(mimetype, M_video_slash) THEN M_video_kind
  ELSE M_document

NoMetadata == [media |-> <<>>, mimetype |-> <<>>, mediatype |-> <<>>, fileName |-> <<>>]

\* The media candidate the call settled on: urlCandidate, else base64Candidate.
NoCandidate == [branch |-> "none", value |-> <<>>]

\* body.<name>: undefined on a scalar; on null or undefined the read throws.
Prop(b, name) == IF b.kind = "object" THEN b[name] ELSE <<>>
Throws(b) == b.kind \in {"null", "undefined"}

\* A slip of the URL branch: the looked-up type wins over body's.
UrlMetadataLookupFirst(b, url) ==
  LET mimetype == Or(mimeLookup(url), <<>>)
      extension == Or(mimeExtension(Or(mimetype, <<>>)), SplitDotPop(url))
  IN [media |-> Or(Prop(b, "media"), url),
      mimetype |-> Or(mimetype, Prop(b, "mimetype")),
      mediatype |-> Or(Or(Prop(b, "mediatype"), inferMediaTypeFromMime(Or(mimetype, <<>>))),
                       M_document),
      fileName |-> IF Prop(b, "fileName") = <<>> /\ extension # <<>>
                   THEN M_media_dot \o extension
                   ELSE <<>>]

\* Lines 170-179: the record the URL branch returns.
UrlMetadata(b, url) ==
  LET mimetype == Or(mimeLookup(url), <<>>)
      extension == Or(mimeExtension(Or(mimetype, <<>>)), SplitDotPop(url))
  IN [media |-> Or(Prop(b, "media"), url),
      mimetype |-> Or(Prop(b, "mimetype"), mimetype),
      mediatype |-> Or(Or(Prop(b, "mediatype"), inferMediaTypeFromMime(Or(mimetype, <<>>))),
                       M_document),
      fileName |-> IF Prop(b, "fileName") = <<>> /\ extension # <<>>
                   THEN M_media_dot \o extension
                   ELSE <<>>]

\* A slip of the size rules: >= for >.
Base64DefaultsInclusive(candidate) ==
  LET lowered == ToLowerCase(candidate)
  IN IF Includes(lowered, M_audio_ogg) \/ Includes(lowered, M_dot_ogg)
     THEN <<M_audio_kind, M_audio_ogg, M_file_audio_ogg>>
     ELSE IF \/ Includes(lowered, M_image_jpeg)
             \/ Includes(lowered, M_dot_jpg)
             \/ Includes(lowered, M_jpeg)
     THEN <<M_image, M_image_jpeg, M_file_image_jpg>>
     ELSE IF JsLength(candidate) >= VIDEO_SIZE_THRESHOLD
     THEN <<M_video_kind, M_video_mp4, M_file_video_mp4>>
     ELSE IF JsLength(candidate) >= AUDIO_SIZE_THRESHOLD
     THEN <<M_audio_kind, M_audio_mpeg, M_file_audio_mp3>>
     ELSE <<M_image, M_image_png, M_file_image_png>>

\* Lines 189-209: the (mediatype, mimetype, fileName) defaults of a base64 string.
Base64Defaults(candidate) ==
  LET lowered == ToLowerCase(candidate)
  IN IF Includes(lowered, M_audio_ogg) \/ Includes(lowered, M_dot_ogg)
     THEN <<M_audio_kind, M_audio_ogg, M_file_audio_ogg>>
     ELSE IF \/ Includes(lowered, M_image_jpeg)
             \/ Includes(lowered, M_dot_jpg)
             \/ Includes(lowered, M_jpeg)
     THEN <<M_image, M_image_jpeg, M_file_image_jpg>>
     ELSE IF JsLength(candidate) > VIDEO_SIZE_THRESHOLD
     THEN <<M_video_kind, M_video_mp4, M_file_video_mp4>>
     ELSE IF JsLength(candidate) > AUDIO_SIZE_THRESHOLD
     THEN <<M_audio_kind, M_audio_mpeg, M_file_audio_mp3>>
     ELSE <<M_image, M_image_png, M_file_image_png>>

\* Lines 186-209: the record the base64 branch returns.
Base64Metadata(b, candidate) ==
  LET d == Base64Defaults(candidate)
  IN [media |-> Or(Prop(b, "media"), candidate),
      mimetype |-> Or(Prop(b, "mimetype"), d[2]),
      mediatype |-> Or(Prop(b, "mediatype"), d[1]),
      fileName |-> Or(Prop(b, "fileName"), d[3])]

\* Lines 169-180: a URL candidate was found.
InferFromUrl ==
  /\ pc = "analyzed"
  /\ urlCandidate(values) # <<>>
  /\ selected' = [branch |-> "url", value |-> urlCandidate(values)]
  /\ IF Throws(body)
     THEN outcome' = "TypeError" /\ metadata' = metadata
     ELSE outcome' = "returned" /\ metadata' = UrlMetadata(body, urlCandidate(values))
  /\ pc' = "inferred"
  /\ UNCHANGED <<analysisVars, body, urlOK, base64OK, lookupResult, extensionResult>>

\* Lines 182-212: no URL candidate, a base64 candidate.
InferFromBase64 ==
  /\ pc = "analyzed"
  /\ urlCandidate(values) = <<>>
  /\ base64Candidate(values) # <<>>
  /\ selected' = [branch |-> "base64", value |-> base64Candidate(values)]
  /\ IF Throws(body)
     THEN outcome' = "TypeError" /\ metadata' = metadata
     ELSE outcome' = "returned" /\ metadata' = Base64Metadata(body, base64Candidate(values))
  /\ pc' = "inferred"
  /\ UNCHANGED <<analysisVars, body, urlOK, base64OK, lookupResult, extensionResult>>

\* Line 212 with no candidate: the empty record.
InferNothing ==
  /\ pc = "analyzed"
  /\ urlCandidate(values) = <<>>
  /\ base64Candidate(values) = <<>>
  /\ selected' = NoCandidate
  /\ outcome' = "returned"
  /\ metadata' = NoMetadata
  /\ pc' = "inferred"
  /\ UNCHANGED <<analysisVars, body, urlOK, base64OK, lookupResult, extensionResult>>

inferMediaMetadata == InferFromUrl \/ InferFromBase64 \/ InferNothing

----------------------------------------------------------------------------
(* Inputs of inferMediaMetadata *)

\* Values a caller may have put on body.
BodyMedia == <<"b","m">>
BodyMimetype == <<"x","/","y">>
BodyMediatype == <<"p","t","v">>
BodyFileName == <<"f",".","b","i","n">>

\* MIME types and extensions the registry may answer.
R_application_pdf == <<"a","p","p","l","i","c","a","t","i","o","n","/","p","d","f">>
R_png == <<"p","n","g">>
R_mp3 == <<"m","p","3">>
R_mp4 == <<"m","p","4">>
R_pdf == <<"p","d","f">>

\* String values: URL-like texts and base64-like texts of chosen lengths.
URL_PNG == <<"h","t","t","p",":","/","/","h","/","a",".","p","n","g">>
URL_NOEXT == <<"h","t","t","p",":","/","/","h","/","b">>
URL_DOT == <<"h","t","t","p",":","/","/","h","/","a",".">>
B150 == <<"0*150">>
B200 == <<"0*200">>
B204 == <<"0*200","0","0","0","0">>
B_OGG == <<"a","u","d","i","o","/","o","g","g","0","0","0","0*200">>
B_DOTOGG == <<".","o","g","g","0*200">>
B_IMGJPEG == <<"i","m","a","g","e","/","j","p","e","g","0","0","0*200">>
B_DOTJPG == <<".","j","p","g","0*200">>
B_JPEG_UPPER == <<"J","P","E","G","0*200">>
B_JPEG_OGG == <<"j","p","e","g","a","u","d","i","o","/","o","g","g","0","0","0","0*200">>
B_JPEG_5M == <<"j","p","e","g","0*5000000">>
B_1M == <<"0*1000000">>
B_1M4 == <<"0*1000000","0","0","0","0">>
B_4M == <<"0*4000000">>
B_4M4 == <<"0*4000000","0","0","0","0">>
B_5M == <<"0*5000000">>

\* The texts with a scheme and a host: the only ones the URL test can pass, and
\* ones the base64 test cannot (":" is no base64 character).
UrlLike == {URL_PNG, URL_NOEXT, URL_DOT}

ClassStrings ==
  {URL_NOEXT, URL_DOT, B150, B_OGG, B_DOTOGG, B_IMGJPEG, B_DOTJPG, B_JPEG_UPPER, B_JPEG_OGG, B_JPEG_5M, B_1M, B_1M4, B_4M, B_4M4, B_5M}

MaxValues == 2

\* Candidate selection: every list of at most MaxValues values over a URL-like
\* string, two base64-like strings around the length floor and a number.
SelectionItems == {Str(URL_PNG), Str(B200), Str(B204), Num}
SelectionLists == UNION {[1..n -> SelectionItems] : n \in 0..MaxValues}

\* Classification: one string of each marker and length class.
ClassLists == {<<Str(s)>> : s \in ClassStrings}

ValueLists == SelectionLists \cup ClassLists

Bodies ==
  [kind : {"object"},
   media : {<<>>, BodyMedia}, mimetype : {<<>>, BodyMimetype},
   mediatype : {<<>>, BodyMediatype}, fileName : {<<>>, BodyFileName}]
    \cup [kind : {"null", "undefined", "scalar"},
          media : {<<>>}, mimetype : {<<>>}, mediatype : {<<>>}, fileName : {<<>>}]

\* <<what mimeTypes.lookup answers, what mimeTypes.extension answers for it>>
RegistryAnswers ==
  {<<<<>>, <<>>>>, <<M_image_png, R_png>>, <<M_image_png, <<>>>>,
   <<M_audio_mpeg, R_mp3>>, <<M_video_mp4, R_mp4>>, <<R_application_pdf, R_pdf>>}

----------------------------------------------------------------------------
(* Specifications *)

EmptyBody ==
  [kind |-> "object", media |-> <<>>, mimetype |-> <<>>, mediatype |-> <<>>,
   fileName |-> <<>>]

\* analyzeMessagePayload(payload) is called.
Init ==
  /\ payload \in Payloads
  /\ stack = CallFrames(payload, <<>>)
  /\ fieldNames = <<>>
  /\ values = <<>>
  /\ type = Undefined
  /\ pc = "collect"
  /\ body = EmptyBody
  /\ urlOK = {}
  /\ base64OK = {}
  /\ lookupResult = <<>>
  /\ extensionResult = <<>>
  /\ selected = NoCandidate
  /\ metadata = NoMetadata
  /\ outcome = "none"

Next == CollectEntry \/ CollectItem \/ CollectReturn \/ Analyze

Spec == Init /\ [][Next]_vars

\* inferMediaMetadata(body, analysis) is called with the analysis of the payload
\* whose values are a list of ValueLists.
InitInfer ==
  /\ values \in ValueLists
  /\ payload = Arr(values)
  /\ stack = <<>>
  /\ fieldNames = [i \in 1..Len(values) |-> IndexText(i - 1)]
  /\ type = ResolveType(fieldNames, values)
  /\ pc = "analyzed"
  /\ body \in Bodies
  /\ urlOK \in SUBSET (Range(stringValues(values)) \cap UrlLike)
  /\ base64OK \in SUBSET (Range(stringValues(values)) \ UrlLike)
  /\ \E r \in RegistryAnswers : lookupResult = r[1] /\ extensionResult = r[2]
  /\ selected = NoCandidate
  /\ metadata = NoMetadata
  /\ outcome = "none"

NextInfer == inferMediaMetadata

SpecInfer == InitInfer /\ [][NextInfer]_vars

----------------------------------------------------------------------------
(* Properties of the analysis (specification Spec) *)

Analyzed == pc = "analyzed"

\* The kind the field-name rules give, the kind the content rules give.
PhaseA == FindDetector(fieldNames)
PhaseB == detectByValues(values)

LastSegment(path) == SplitDotPop(ToLowerCase(path))

ExactNames(kind) ==
  CASE kind = "template" -> {L_template, L_components, L_language}
    [] kind = "status" -> {L_statusjidlist, L_allcontacts}
    [] kind = "media" -> {L_media, L_mediatype, L_mimetype}
    [] kind = "text" -> {L_text}

\* A rule's predicate as the specification words it: the four exact-name rules
\* test the last segment of a path, the others are substring tests.
SpecRuleHolds(kind, fields) ==
  IF kind \in {"template", "status", "media", "text"}
  THEN \E i \in 1..Len(fields) : LastSegment(fields[i]) \in ExactNames(kind)
  ELSE DetectorMatch(kind, fields)

PhaseAOrder ==
  <<"sticker", "reaction", "template", "buttons", "list", "location", "contact",
    "poll", "status", "ptv", "audio", "media", "text">>

TopLevelKeys == {ToLowerCase(payload.kids[i][1]) : i \in 1..Len(payload.kids)}

C5_ParallelSequences ==
  /\ Len(fieldNames) = Len(values)
  /\ (Analyzed /\ (~IsObjectLike(payload) \/ payload = Obj(<<>>))) =>
       (fieldNames = <<>> /\ values = <<>> /\ type = "unknown")

C5_Witness ==
  /\ Analyzed
  /\ payload = Obj(<<<<K_a, Arr(<<Arr(<<Num>>)>>)>>>>)
  /\ Len(fieldNames) = 3
  /\ Len(values) = 3

\* C9: with no content match the type is the kind of the first rule, in the
\* fixed order, whose predicate holds on the paths (unknown when none holds);
\* location needs a path containing "latitude" and a path containing
\* "longitude", so a payload with only one of them is never location.
C9_PriorityChain ==
  Analyzed /\ PhaseB = Undefined =>
    /\ \A i \in 1..Len(PhaseAOrder) :
         (/\ DetectorMatch(PhaseAOrder[i], fieldNames)
          /\ \A j \in 1..(i - 1) : ~DetectorMatch(PhaseAOrder[j], fieldNames))
         => type = PhaseAOrder[i]
    /\ (\A i \in 1..Len(PhaseAOrder) : ~DetectorMatch(PhaseAOrder[i], fieldNames))
         => type = "unknown"
    /\ type = "location" =>
         /\ \E i \in 1..Len(fieldNames) : Includes(ToLowerCase(fieldNames[i]), L_latitude)
         /\ \E i \in 1..Len(fieldNames) : Includes(ToLowerCase(fieldNames[i]), L_longitude)

C9_Witness ==
  /\ Analyzed
  /\ payload = Obj(<<<<K_text, Num>>, <<K_latitude, Num>>>>)
  /\ PhaseB = Undefined
  /\ type = "text"

\* The pairs the flattener emits according to C10: pre-order, mapping entries
\* at prefix.key and every sequence element at path[i].
RECURSIVE ClaimedPairs(_, _), ClaimedPairsFrom(_, _, _)
ClaimedPairs(v, path) == ClaimedPairsFrom(v, path, 1)
ClaimedPairsFrom(v, path, i) ==
  IF ~IsObjectLike(v) \/ i > Len(v.kids) THEN <<>>
  ELSE LET child == v.kids[i][2]
           p == IF IsArray(v) THEN ItemPath(path, i - 1)
                ELSE EntryPath(path, v.kids[i][1])
       IN <<<<p, child>>>> \o ClaimedPairs(child, p) \o ClaimedPairsFrom(v, path, i + 1)

\* C10 as stated: one (path, value) pair per node in pre-order, every sequence
\* element at the bracket-indexed path path[i], also for a sequence inside a
\* sequence and for a top-level sequence.
C10_BracketIndexedPreOrder ==
  Analyzed =>
    LET pairs == ClaimedPairs(payload, <<>>)
    IN /\ fieldNames = [i \in 1..Len(pairs) |-> pairs[i][1]]
       /\ values = [i \in 1..Len(pairs) |-> pairs[i][2]]

----------------------------------------------------------------------------
(* Properties of inferMediaMetadata (specification SpecInfer) *)

Returned == pc = "inferred" /\ outcome = "returned"

MetadataFields == {"media", "mimetype", "mediatype", "fileName"}

BodyCarriesNone == \A f \in MetadataFields : Prop(body, f) = <<>>

\* values[i] is a string passing the URL test; a string longer than the floor
\* passing the base64 test.
UrlAt(i) == IsString(values[i]) /\ values[i].s \in urlOK
Base64At(i) ==
  /\ IsString(values[i])
  /\ JsLength(values[i].s) > 200
  /\ values[i].s \in base64OK
HasUrl == \E i \in 1..Len(values) : UrlAt(i)
HasBase64 == \E i \in 1..Len(values) : Base64At(i)
FirstUrl ==
  values[CHOOSE i \in 1..Len(values) : UrlAt(i) /\ \A j \in 1..(i - 1) : ~UrlAt(j)].s

\* The call returned a record for a body that is an object or a scalar (a
\* property read on those never throws).
ReturnedFor == pc = "inferred" /\ body.kind \in {"object", "scalar"}

\* C2 as stated: every field truthy on body appears in the returned record with
\* body's value, whichever branch applies.
C2_CopiedThrough ==
  pc = "inferred" =>
    \A f \in MetadataFields :
      Prop(body, f) # <<>> => outcome = "returned" /\ metadata[f] = Prop(body, f)

\* C2 amended: an inferred value never replaces a caller-supplied one: a field
\* truthy on body is, in the returned record, either absent or body's value.
\* It is body's value for all four fields in the base64 branch and for media,
\* mimetype and mediatype in the URL branch; the URL branch leaves out a
\* fileName that body supplies, and with no candidate the record is empty.
C2_NeverOverwritten ==
  pc = "inferred" =>
    \A f \in MetadataFields :
      Prop(body, f) # <<>> =>
        /\ outcome = "returned"
        /\ metadata[f] \in {<<>>, Prop(body, f)}
        /\ HasUrl /\ f # "fileName" => metadata[f] = Prop(body, f)
        /\ HasUrl /\ f = "fileName" => metadata[f] = <<>>
        /\ ~HasUrl /\ HasBase64 => metadata[f] = Prop(body, f)
        /\ ~HasUrl /\ ~HasBase64 => metadata[f] = <<>>

C2_Witness ==
  /\ Returned
  /\ HasUrl
  /\ body.mimetype = BodyMimetype
  /\ body.fileName = BodyFileName
  /\ lookupResult = M_image_png
  /\ metadata.mimetype = BodyMimetype
  /\ metadata.fileName = <<>>

\* C3 as stated: neither entry point raises, for every body (null, undefined
\* and scalars included) and whatever the collaborators answer: every call
\* ends by returning a record.
C3_NeverRaises == pc = "inferred" => outcome = "returned"

\* C6 as stated: with none of the four fields on body and a URL among the
\* values, all four fields of the record are populated, whatever the registry
\* answers.
C6_AllFourPopulated ==
  ReturnedFor /\ BodyCarriesNone /\ HasUrl =>
    /\ outcome = "returned"
    /\ \A f \in MetadataFields : metadata[f] # <<>>

\* C6 amended: in that case media is the URL and mediatype is populated (image,
\* audio or video by the MIME primary category, else document, also when the
\* lookup resolves nothing); mimetype is the looked-up type and is populated
\* only when the lookup resolves one; fileName is media.<ext>, <ext> being the
\* registry's extension or else the text after the URL's last ".", and is
\* absent when that text is empty.
C6_UrlFields ==
  ReturnedFor /\ BodyCarriesNone /\ HasUrl =>
    LET ext == IF lookupResult # <<>> /\ extensionResult # <<>> THEN extensionResult
               ELSE SplitDotPop(FirstUrl)
    IN /\ outcome = "returned"
       /\ metadata.media = FirstUrl
       /\ metadata.mimetype = lookupResult
       /\ metadata.mediatype =
            CASE lookupResult = M_image_png -> M_image
              [] lookupResult = M_audio_mpeg -> M_audio_kind
              [] lookupResult = M_video_mp4 -> M_video_kind
              [] OTHER -> M_document
       /\ metadata.fileName = IF ext # <<>> THEN M_media_dot \o ext ELSE <<>>

C6_Witness ==
  /\ Returned
  /\ BodyCarriesNone
  /\ values = <<Str(URL_PNG)>>
  /\ HasUrl
  /\ lookupResult = <<>>
  /\ metadata.media = URL_PNG
  /\ metadata.mimetype = <<>>
  /\ metadata.mediatype = M_document
  /\ metadata.fileName = M_media_dot \o R_png

C8_Base64Triple ==
  (/\ ReturnedFor
   /\ selected.branch = "base64"
   /\ \A f \in {"mimetype", "mediatype", "fileName"} : Prop(body, f) = <<>>) =>
    LET c == selected.value
        low == ToLowerCase(c)
        triple == <<metadata.mediatype, metadata.mimetype, metadata.fileName>>
    IN /\ outcome = "returned"
       /\ triple =
            IF Includes(low, M_audio_ogg) \/ Includes(low, M_dot_ogg)
            THEN <<M_audio_kind, M_audio_ogg, M_file_audio_ogg>>
            ELSE IF Includes(low, M_image_jpeg) \/ Includes(low, M_dot_jpg)
                      \/ Includes(low, M_jpeg)
            THEN <<M_image, M_image_jpeg, M_file_image_jpg>>
            ELSE IF JsLength(c) > 4000000
            THEN <<M_video_kind, M_video_mp4, M_file_video_mp4>>
            ELSE IF JsLength(c) > 1000000
            THEN <<M_audio_kind, M_audio_mpeg, M_file_audio_mp3>>
            ELSE <<M_image, M_image_png, M_file_image_png>>
       /\ c = B_4M => metadata.mimetype = M_audio_mpeg
       /\ c = B_1M => metadata.mimetype = M_image_png
       /\ c = B_5M => triple = <<M_video_kind, M_video_mp4, M_file_video_mp4>>
       /\ c = B_JPEG_5M => metadata.mimetype = M_image_jpeg
       /\ c = B_JPEG_OGG => metadata.mimetype = M_audio_ogg

C8_Witness ==
  /\ Returned
  /\ values = <<Str(B_5M)>>
  /\ selected = [branch |-> "base64", value |-> B_5M]
  /\ BodyCarriesNone
  /\ metadata.mediatype = M_video_kind
  /\ metadata.mimetype = M_video_mp4
  /\ metadata.fileName = M_file_video_mp4

====
